---- MODULE Spec2Model ----
(***************************************************************************)
(* Decision engine of the auto-instrumentation pod mutator                 *)
(* (pkg/instrumentation/helper.go, javaagent.go).                          *)
(*                                                                         *)
(* Strings are sequences of tokens (a token is a run of characters), so    *)
(* that strings.Contains, strings.HasPrefix, concatenation and comparison  *)
(* with "" are computed and not assumed.  The tokens are chosen so that no *)
(* needle of the code straddles a token boundary of an enumerated string.  *)
(*                                                                         *)
(* helper.go holds two revisions of the package one after the other.  The  *)
(* first (lines 1-417) is modelled under the source's names; where the     *)
(* second (lines 419-707) redefines a function differently, the second     *)
(* definition carries the suffix Rev2.                                     *)
(***************************************************************************)
EXTENDS Integers, Sequences, FiniteSets, TLC

VARIABLES
    endpoint,      \* classifier: the endpoint string handed to containsCloudWatchAgent
    classified,    \* classifier: [rev, result] of the call, rev = 0 before it
    envView,       \* policy: the effective env view handed to the decisions
    podSC,         \* policy: pod.Spec.SecurityContext (a pointer: Nil or Some)
    ctrSC,         \* policy: container.SecurityContext (a pointer: Nil or Some)
    verdict,       \* policy: [fn, result] of the decision taken, fn = "none" before it
    injEnvs,       \* injection loop: the env list the proposed variables are appended to
    injOrig,       \* injection loop: the env list before the first proposal
    injLast,       \* injection loop: the last proposal and what was decided, rev = 0 before it
    injAttempts,   \* injection loop: proposals processed so far
    containers,    \* resolver: the pod's containers, each with Env and EnvFrom
    configMapCache, \* resolver: ConfigMap name -> Nil or Some(data), one mutation pass
    secretCache,   \* resolver: Secret name -> Nil or Some(data), one mutation pass
    lastCall,      \* resolver: the last call of getAllEnvVars, container = 0 before it
    podObj,        \* mutator: the pod value (InitContainers, Containers, Volumes)
    javaSpec,      \* mutator: the instrumentation's Java spec (Env, VolumeSizeLimit)
    index,         \* mutator: the index of the target container
    passes,        \* mutator: mutation passes made over the pod
    passLog,       \* mutator: the pod before the last pass, the pod after the first
                   \*          pass, and the error of the last pass
    ctrs,          \* validator: the comma-joined target lists
    duplicated     \* validator: the result of findDuplicatedContainers, called = FALSE
                   \*            before the call

vars == <<endpoint, classified, envView, podSC, ctrSC, verdict,
          injEnvs, injOrig, injLast, injAttempts,
          containers, configMapCache, secretCache, lastCall,
          podObj, javaSpec, index, passes, passLog,
          ctrs, duplicated>>

classifierVars == <<endpoint, classified>>
policyVars == <<envView, podSC, ctrSC, verdict>>
injectVars == <<injEnvs, injOrig, injLast, injAttempts>>
resolverVars == <<containers, configMapCache, secretCache, lastCall>>
mutatorVars == <<podObj, javaSpec, index, passes, passLog>>
validatorVars == <<ctrs, duplicated>>

----------------------------------------------------------------------------
(* Bounds *)

MaxEndpointLen == 5
MaxViewLen == 2
MaxInjections == 2
MaxSources == 2
MaxPasses == 2

----------------------------------------------------------------------------
(* strings *)

\* ""
EmptyString == <<>>

\* strings.Contains(s, substr)
Contains(s, substr) ==
    \E i \in 0..(Len(s) - Len(substr)) : SubSeq(s, i + 1, i + Len(substr)) = substr

\* strings.HasPrefix(s, prefix)
HasPrefix(s, prefix) ==
    Len(s) >= Len(prefix) /\ SubSeq(s, 1, Len(prefix)) = prefix

\* simple case folding of one token
Fold(tok) ==
    CASE tok \in {"true", "TRUE", "True"}    -> "true"
      [] tok \in {"false", "FALSE", "False"} -> "false"
      [] OTHER                               -> tok

\* strings.EqualFold(s, t)
EqualFold(s, t) ==
    Len(s) = Len(t) /\ \A i \in 1..Len(s) : Fold(s[i]) = Fold(t[i])

(* pointers: nil, or a pointer to one value *)
Nil == <<>>
Some(x) == <<x>>

----------------------------------------------------------------------------
(* Endpoint classifier *)

cloudwatchAgentStandardEndpoint == <<"cloudwatch-agent.amazon-cloudwatch">>
cloudwatchAgentWindowsEndpoint ==
    <<"cloudwatch-agent-windows-headless.amazon-cloudwatch.svc.cluster.local">>
cloudwatchAgentPort == <<"4316">>

\* helper.go:178 (first revision): "://" + host is a substring of the endpoint
containsCloudWatchAgent(e) ==
    \/ Contains(e, <<"://">> \o cloudwatchAgentStandardEndpoint)
    \/ Contains(e, <<"://">> \o cloudwatchAgentWindowsEndpoint)

\* helper.go:552 (second revision): host + ":" + port is a substring of the endpoint
containsCloudWatchAgentRev2(e) ==
    LET standardEndpoint == cloudwatchAgentStandardEndpoint \o <<":">> \o cloudwatchAgentPort
        windowsEndpoint  == cloudwatchAgentWindowsEndpoint \o <<":">> \o cloudwatchAgentPort
    IN  Contains(e, standardEndpoint) \/ Contains(e, windowsEndpoint)

----------------------------------------------------------------------------
(* Environment variables *)

\* corev1.EnvVar
EnvVar(name, value) == [Name |-> name, Value |-> value]

\* the reserved names the policy reads
OTEL_AWS_APPLICATION_SIGNALS_ENABLED == <<"OTEL_", "AWS_APPLICATION_SIGNALS_ENABLED">>
OTEL_EXPORTER_OTLP_ENDPOINT          == <<"OTEL_", "EXPORTER_OTLP_ENDPOINT">>
OTEL_EXPORTER_OTLP_TRACES_ENDPOINT   == <<"OTEL_", "EXPORTER_OTLP_TRACES_ENDPOINT">>
OTEL_EXPORTER_OTLP_METRICS_ENDPOINT  == <<"OTEL_", "EXPORTER_OTLP_METRICS_ENDPOINT">>
OTEL_EXPORTER_OTLP_LOGS_ENDPOINT     == <<"OTEL_", "EXPORTER_OTLP_LOGS_ENDPOINT">>
OTEL_METRICS_EXPORTER                == <<"OTEL_", "METRICS_EXPORTER">>
OTEL_LOGS_EXPORTER                   == <<"OTEL_", "LOGS_EXPORTER">>
OTEL_TRACES_EXPORTER                 == <<"OTEL_", "TRACES_EXPORTER">>

\* getEnvValue: the value of the first variable of that name, "" when there is none
RECURSIVE getEnvValue(_, _)
getEnvValue(envs, name) ==
    IF envs = <<>> THEN EmptyString
    ELSE IF Head(envs).Name = name THEN Head(envs).Value
    ELSE getEnvValue(Tail(envs), name)

isApplicationSignalsExplicitlyEnabled(envs) ==
    EqualFold(getEnvValue(envs, OTEL_AWS_APPLICATION_SIGNALS_ENABLED), <<"true">>)

\* first revision (helper.go:201): set to false
isApplicationSignalsExplicitlyDisabled(envs) ==
    EqualFold(getEnvValue(envs, OTEL_AWS_APPLICATION_SIGNALS_ENABLED), <<"false">>)

\* second revision (helper.go:578): set to false, or not set at all
isApplicationSignalsExplicitlyDisabledRev2(envs) ==
    LET value == getEnvValue(envs, OTEL_AWS_APPLICATION_SIGNALS_ENABLED)
    IN  EqualFold(value, <<"false">>) \/ value = EmptyString

----------------------------------------------------------------------------
(* Injection policy, first revision *)

\* a slip in the pod-level check: the test for a missing user is inverted
podSecurityRefusesInverted(pod) ==
    LET podSCp == pod.SecurityContext
    IN  /\ podSCp # Nil
        /\ podSCp[1].RunAsNonRoot # Nil
        /\ podSCp[1].RunAsNonRoot[1]
        /\ podSCp[1].RunAsUser # Nil

\* helper.go:337-347: the pod requires non-root and names no user
podSecurityRefuses(pod) ==
    LET podSCp == pod.SecurityContext
    IN  /\ podSCp # Nil
        /\ podSCp[1].RunAsNonRoot # Nil
        /\ podSCp[1].RunAsNonRoot[1]
        /\ podSCp[1].RunAsUser = Nil

\* helper.go:336-341, 352-363: the container requires non-root and neither it
\* nor the pod names a user (-1 stands for no user)
containerSecurityRefuses(pod, container) ==
    LET podSCp == pod.SecurityContext
        podRunAsUser ==
            IF podSCp # Nil /\ podSCp[1].RunAsUser # Nil THEN podSCp[1].RunAsUser[1] ELSE -1
        containerSCp == container.SecurityContext
        effectiveRunAsUser ==
            IF containerSCp[1].RunAsUser # Nil
            THEN containerSCp[1].RunAsUser[1]
            ELSE podRunAsUser
    IN  /\ containerSCp # Nil
        /\ containerSCp[1].RunAsNonRoot # Nil
        /\ containerSCp[1].RunAsNonRoot[1]
        /\ effectiveRunAsUser = -1

\* shouldInjectADOTSDK(envs, pod, container), helper.go:333
shouldInjectADOTSDK(envs, pod, container) ==
    LET otlpEndpoint    == getEnvValue(envs, OTEL_EXPORTER_OTLP_ENDPOINT)
        tracesEndpoint  == getEnvValue(envs, OTEL_EXPORTER_OTLP_TRACES_ENDPOINT)
        metricsEndpoint == getEnvValue(envs, OTEL_EXPORTER_OTLP_METRICS_ENDPOINT)
        logsEndpoint    == getEnvValue(envs, OTEL_EXPORTER_OTLP_LOGS_ENDPOINT)
    IN  IF podSecurityRefuses(pod) THEN FALSE
        ELSE IF containerSecurityRefuses(pod, container) THEN FALSE
        ELSE IF isApplicationSignalsExplicitlyEnabled(envs) THEN TRUE
        ELSE IF otlpEndpoint # EmptyString /\ ~containsCloudWatchAgent(otlpEndpoint)
             THEN FALSE
        ELSE IF tracesEndpoint # EmptyString /\ ~containsCloudWatchAgent(tracesEndpoint)
             THEN FALSE
        ELSE IF metricsEndpoint # EmptyString /\ ~containsCloudWatchAgent(metricsEndpoint)
             THEN FALSE
        ELSE IF logsEndpoint # EmptyString /\ ~containsCloudWatchAgent(logsEndpoint)
             THEN FALSE
        ELSE TRUE

\* shouldInjectEnvVar(envs, envName), helper.go:403
shouldInjectEnvVar(envs, envName) ==
    IF getEnvValue(envs, envName) # EmptyString THEN FALSE
    ELSE IF isApplicationSignalsExplicitlyDisabled(envs) /\ HasPrefix(envName, <<"OTEL_">>)
         THEN FALSE
    ELSE TRUE

----------------------------------------------------------------------------
(* Injection policy, second revision *)

\* shouldInjectADOTSDK(envs), helper.go:585
shouldInjectADOTSDKRev2(envs) ==
    LET otlpEndpoint   == getEnvValue(envs, OTEL_EXPORTER_OTLP_ENDPOINT)
        tracesEndpoint == getEnvValue(envs, OTEL_EXPORTER_OTLP_TRACES_ENDPOINT)
    IN  IF /\ otlpEndpoint # EmptyString
           /\ ~containsCloudWatchAgentRev2(otlpEndpoint)
           /\ isApplicationSignalsExplicitlyDisabledRev2(envs)
        THEN FALSE
        ELSE IF /\ tracesEndpoint # EmptyString
                /\ ~containsCloudWatchAgentRev2(tracesEndpoint)
                /\ isApplicationSignalsExplicitlyDisabledRev2(envs)
        THEN FALSE
        ELSE TRUE

\* the test the three per-signal decisions start with: the generic OTLP endpoint
\* is set, is not the agent's, and Application Signals is explicitly enabled
otlpIsCustomAndEnabled(envs) ==
    LET otlpEndpoint == getEnvValue(envs, OTEL_EXPORTER_OTLP_ENDPOINT)
    IN  /\ otlpEndpoint # EmptyString
        /\ ~containsCloudWatchAgentRev2(otlpEndpoint)
        /\ isApplicationSignalsExplicitlyEnabled(envs)

\* shouldDisableMetrics(envs), helper.go:608
shouldDisableMetrics(envs) ==
    IF otlpIsCustomAndEnabled(envs) THEN FALSE
    ELSE IF getEnvValue(envs, OTEL_EXPORTER_OTLP_METRICS_ENDPOINT) # EmptyString THEN FALSE
    ELSE TRUE

\* shouldDisableLogs(envs), helper.go:629
shouldDisableLogs(envs) ==
    IF otlpIsCustomAndEnabled(envs) THEN FALSE
    ELSE IF getEnvValue(envs, OTEL_EXPORTER_OTLP_LOGS_ENDPOINT) # EmptyString THEN FALSE
    ELSE TRUE

\* shouldOverrideTracesEndpoint(envs), helper.go:650
shouldOverrideTracesEndpoint(envs) ==
    IF otlpIsCustomAndEnabled(envs) THEN FALSE
    ELSE IF getEnvValue(envs, OTEL_EXPORTER_OTLP_TRACES_ENDPOINT) # EmptyString THEN FALSE
    ELSE TRUE

\* shouldInjectEnvVar(envs, envName, envValue), helper.go:672
shouldInjectEnvVarRev2(envs, envName, envValue) ==
    IF getEnvValue(envs, envName) # EmptyString THEN FALSE
    ELSE IF envName = OTEL_METRICS_EXPORTER
         THEN IF envValue = <<"none">> THEN shouldDisableMetrics(envs)
              ELSE IF envValue = <<"otlp">> THEN ~shouldDisableMetrics(envs)
              ELSE TRUE
    ELSE IF envName = OTEL_LOGS_EXPORTER
         THEN IF envValue = <<"none">> THEN shouldDisableLogs(envs) ELSE TRUE
    ELSE IF envName = OTEL_EXPORTER_OTLP_TRACES_ENDPOINT
         THEN shouldOverrideTracesEndpoint(envs)
    ELSE IF envName = OTEL_TRACES_EXPORTER
         THEN getEnvValue(envs, OTEL_EXPORTER_OTLP_TRACES_ENDPOINT) = EmptyString
    ELSE IF HasPrefix(envName, <<"OTEL_">>)
         THEN getEnvValue(envs, envName) = EmptyString
    ELSE TRUE

----------------------------------------------------------------------------
(* Environment view resolver *)

\* corev1.EnvFromSource: a ConfigMapRef or a SecretRef
ConfigMapRef(name) == [kind |-> "ConfigMap", name |-> name]
SecretRef(name) == [kind |-> "Secret", name |-> name]

\* the orders in which a range over a map's entries may visit them
Iterations(data) ==
    {it \in [1..Cardinality(data) -> data] : \A e \in data : \E i \in DOMAIN it : it[i] = e}

\* resolveEnvFrom, helper.go:208.  k8sClient maps a reference to what Get
\* returns for it: Nil for an error, Some(data) otherwise.  iteration[i] is the
\* order in which the range over the i-th source's data visits its entries.
\* The result holds the resolved variables, the two caches as the call leaves
\* them, and the references Get was called for.
\* a slip in the loop: a failed fetch ends the resolution instead of skipping
\* the source
RECURSIVE resolveEnvFromLoopAborting(_, _, _, _, _)
resolveEnvFromLoopAborting(i, k8sClient, envFromSources, iteration, acc) ==
    IF i > Len(envFromSources) THEN acc
    ELSE
        LET source == envFromSources[i]
            cache  == IF source.kind = "ConfigMap" THEN acc.configMapCache
                      ELSE acc.secretCache
            exists == cache[source.name] # Nil
            got    == k8sClient[source]
            called == [acc EXCEPT !.gets = Append(@, source)]
        IN  IF exists
            THEN resolveEnvFromLoopAborting(i + 1, k8sClient, envFromSources, iteration,
                     [acc EXCEPT !.resolvedEnvs = @ \o iteration[i]])
            ELSE IF got = Nil
            THEN called
            ELSE IF source.kind = "ConfigMap"
            THEN resolveEnvFromLoopAborting(i + 1, k8sClient, envFromSources, iteration,
                     [called EXCEPT !.configMapCache[source.name] = got,
                                    !.resolvedEnvs = @ \o iteration[i]])
            ELSE resolveEnvFromLoopAborting(i + 1, k8sClient, envFromSources, iteration,
                     [called EXCEPT !.secretCache[source.name] = got,
                                    !.resolvedEnvs = @ \o iteration[i]])

\* a slip in the loop: the caches are written but never read, every source is
\* fetched again
RECURSIVE resolveEnvFromLoopAlwaysFetching(_, _, _, _, _)
resolveEnvFromLoopAlwaysFetching(i, k8sClient, envFromSources, iteration, acc) ==
    IF i > Len(envFromSources) THEN acc
    ELSE
        LET source == envFromSources[i]
            got    == k8sClient[source]
            called == [acc EXCEPT !.gets = Append(@, source)]
        IN  IF got = Nil
            THEN resolveEnvFromLoopAlwaysFetching(i + 1, k8sClient, envFromSources,
                     iteration, called)
            ELSE IF source.kind = "ConfigMap"
            THEN resolveEnvFromLoopAlwaysFetching(i + 1, k8sClient, envFromSources,
                     iteration,
                     [called EXCEPT !.configMapCache[source.name] = got,
                                    !.resolvedEnvs = @ \o iteration[i]])
            ELSE resolveEnvFromLoopAlwaysFetching(i + 1, k8sClient, envFromSources,
                     iteration,
                     [called EXCEPT !.secretCache[source.name] = got,
                                    !.resolvedEnvs = @ \o iteration[i]])

RECURSIVE resolveEnvFromLoop(_, _, _, _, _)
resolveEnvFromLoop(i, k8sClient, envFromSources, iteration, acc) ==
    IF i > Len(envFromSources) THEN acc
    ELSE
        LET source == envFromSources[i]
            cache  == IF source.kind = "ConfigMap" THEN acc.configMapCache
                      ELSE acc.secretCache
            exists == cache[source.name] # Nil
            got    == k8sClient[source]
            called == [acc EXCEPT !.gets = Append(@, source)]
        IN  IF exists
            THEN resolveEnvFromLoop(i + 1, k8sClient, envFromSources, iteration,
                     [acc EXCEPT !.resolvedEnvs = @ \o iteration[i]])
            ELSE IF got = Nil
            THEN resolveEnvFromLoop(i + 1, k8sClient, envFromSources, iteration, called)
            ELSE IF source.kind = "ConfigMap"
            THEN resolveEnvFromLoop(i + 1, k8sClient, envFromSources, iteration,
                     [called EXCEPT !.configMapCache[source.name] = got,
                                    !.resolvedEnvs = @ \o iteration[i]])
            ELSE resolveEnvFromLoop(i + 1, k8sClient, envFromSources, iteration,
                     [called EXCEPT !.secretCache[source.name] = got,
                                    !.resolvedEnvs = @ \o iteration[i]])

resolveEnvFrom(k8sClient, envFromSources, cmCache, secCache, iteration) ==
    resolveEnvFromLoop(1, k8sClient, envFromSources, iteration,
        [resolvedEnvs |-> <<>>, configMapCache |-> cmCache, secretCache |-> secCache,
         gets |-> <<>>])

\* a slip in the merge: the resolved variables are appended without looking at
\* the names of the direct ones
getAllEnvVarsAppendingAll(k8sClient, container, cmCache, secCache, iteration) ==
    IF Len(container.EnvFrom) > 0
    THEN LET resolved == resolveEnvFrom(k8sClient, container.EnvFrom, cmCache, secCache,
                                        iteration)
         IN  [allEnvs        |-> container.Env \o resolved.resolvedEnvs,
              configMapCache |-> resolved.configMapCache,
              secretCache    |-> resolved.secretCache,
              gets           |-> resolved.gets]
    ELSE [allEnvs |-> container.Env, configMapCache |-> cmCache,
          secretCache |-> secCache, gets |-> <<>>]

\* getAllEnvVars, helper.go:300: the direct variables, then the resolved ones
\* whose name no direct variable has
getAllEnvVars(k8sClient, container, cmCache, secCache, iteration) ==
    IF Len(container.EnvFrom) > 0
    THEN LET resolved == resolveEnvFrom(k8sClient, container.EnvFrom, cmCache, secCache,
                                        iteration)
             envMap   == {container.Env[i].Name : i \in 1..Len(container.Env)}
         IN  [allEnvs        |-> container.Env \o
                                 SelectSeq(resolved.resolvedEnvs,
                                           LAMBDA e : e.Name \notin envMap),
              configMapCache |-> resolved.configMapCache,
              secretCache    |-> resolved.secretCache,
              gets           |-> resolved.gets]
    ELSE [allEnvs |-> container.Env, configMapCache |-> cmCache,
          secretCache |-> secCache, gets |-> <<>>]

----------------------------------------------------------------------------
(* Idempotency guard and Java agent injection *)

\* names the package takes from files of the repository other than the two modelled
initContainerName == "opentelemetry-auto-instrumentation"
volumeName == "opentelemetry-auto-instrumentation"
sideCarName == "opentelemetry-auto-instrumentation"
namingContainer == "otc-container"
EnvNodeName == <<"OTEL_", "RESOURCE_ATTRIBUTES_NODE_NAME">>
dotnetInitContainerName == "opentelemetry-auto-instrumentation-dotnet"
nodejsInitContainerName == "opentelemetry-auto-instrumentation-nodejs"
pythonInitContainerName == "opentelemetry-auto-instrumentation-python"
apacheAgentInitContainerName == "otel-agent-attach-apache"
apacheAgentCloneContainerName == "otel-agent-source-container-clone"

\* javaagent.go:14-18
envJavaToolsOptions == <<"JAVA_TOOL_OPTIONS">>
javaJVMArgument == <<" -javaagent:/otel-auto-instrumentation-java/javaagent.jar">>
javaInitContainerName == "opentelemetry-auto-instrumentation-java"
javaVolumeName == "opentelemetry-auto-instrumentation-java"
javaInstrMountPath == "/otel-auto-instrumentation-java"

\* helper.go:28
defaultSize == "200Mi"

\* volumeSize, helper.go:170
volumeSize(quantity) == IF quantity = Nil THEN Some(defaultSize) ELSE quantity

\* isInitContainerMissing, helper.go:73
isInitContainerMissing(p, containerName) ==
    \A i \in 1..Len(p.InitContainers) : p.InitContainers[i].Name # containerName

\* a slip: the marker variable counts on every container, the operator's own
\* sidecar included
isAutoInstrumentationInjectedAnyMarker(p) ==
    \/ \E i \in 1..Len(p.InitContainers) :
          p.InitContainers[i].Name \in
              {dotnetInitContainerName, javaInitContainerName, nodejsInitContainerName,
               pythonInitContainerName, apacheAgentInitContainerName,
               apacheAgentCloneContainerName}
    \/ \E i \in 1..Len(p.Containers) :
          \/ p.Containers[i].Name = sideCarName
          \/ \E j \in 1..Len(p.Containers[i].Env) :
                p.Containers[i].Env[j].Name = EnvNodeName

\* isAutoInstrumentationInjected, helper.go:83
isAutoInstrumentationInjected(p) ==
    \/ \E i \in 1..Len(p.InitContainers) :
          p.InitContainers[i].Name \in
              {dotnetInitContainerName, javaInitContainerName, nodejsInitContainerName,
               pythonInitContainerName, apacheAgentInitContainerName,
               apacheAgentCloneContainerName}
    \/ \E i \in 1..Len(p.Containers) :
          \/ p.Containers[i].Name = sideCarName
          \/ /\ p.Containers[i].Name # namingContainer
             /\ \E j \in 1..Len(p.Containers[i].Env) :
                   p.Containers[i].Env[j].Name = EnvNodeName

\* validateContainerEnv: an error when the first variable of that name takes
\* its value from a source (ValueFrom)
validateContainerEnv(envs, envToBeValidated) ==
    IF \E i \in 1..Len(envs) :
          /\ envs[i].Name = envToBeValidated
          /\ \A j \in 1..(i - 1) : envs[j].Name # envToBeValidated
          /\ "ValueFrom" \in DOMAIN envs[i]
    THEN "the container defines env var value via ValueFrom"
    ELSE "nil"

\* getIndexOfEnv: the index of the first variable of that name, -1 when there
\* is none (indices from 1 here)
getIndexOfEnv(envs, name) ==
    IF \E i \in 1..Len(envs) : envs[i].Name = name
    THEN CHOOSE i \in 1..Len(envs) :
             envs[i].Name = name /\ \A j \in 1..(i - 1) : envs[j].Name # name
    ELSE -1

\* javaagent.go:66-83: the spec's variables, each appended if shouldInjectEnvVar allows
RECURSIVE injectSpecEnv(_, _)
injectSpecEnv(containerEnv, specEnv) ==
    IF specEnv = <<>> THEN containerEnv
    ELSE LET env == Head(specEnv)
         IN  IF shouldInjectEnvVarRev2(containerEnv, env.Name, env.Value)
             THEN injectSpecEnv(Append(containerEnv, env), Tail(specEnv))
             ELSE injectSpecEnv(containerEnv, Tail(specEnv))

\* a slip: an existing JAVA_TOOL_OPTIONS is set to the agent's argument, losing
\* the options it held
withJavaToolOptionsReplacing(containerEnv) ==
    LET idx == getIndexOfEnv(containerEnv, envJavaToolsOptions)
    IN  IF idx = -1
        THEN Append(containerEnv, EnvVar(envJavaToolsOptions, javaJVMArgument))
        ELSE [containerEnv EXCEPT ![idx].Value = javaJVMArgument]

\* javaagent.go:85-93: JAVA_TOOL_OPTIONS is appended, or the agent's argument is
\* added to its value
withJavaToolOptions(containerEnv) ==
    LET idx == getIndexOfEnv(containerEnv, envJavaToolsOptions)
    IN  IF idx = -1
        THEN Append(containerEnv, EnvVar(envJavaToolsOptions, javaJVMArgument))
        ELSE [containerEnv EXCEPT ![idx].Value = @ \o javaJVMArgument]

\* injectJavaagent, javaagent.go:27: the pod returned and the error
injectJavaagent(spec, p, idx) ==
    LET marked == [p EXCEPT !.Containers[idx].Env =
                                Append(@, EnvVar(<<"NEW_OPERATOR">>, <<"AUTOMONITOR">>))]
        err == validateContainerEnv(marked.Containers[idx].Env, envJavaToolsOptions)
        withEnv == [marked EXCEPT !.Containers[idx].Env =
                                      withJavaToolOptions(injectSpecEnv(@, spec.Env)),
                                  !.Containers[idx].VolumeMounts =
                                      Append(@, [Name |-> javaVolumeName,
                                                 MountPath |-> javaInstrMountPath])]
        withInit == [withEnv EXCEPT
                        !.Volumes = Append(@, [Name |-> javaVolumeName,
                                               SizeLimit |-> volumeSize(spec.VolumeSizeLimit)]),
                        !.InitContainers =
                            Append(@, [Name |-> javaInitContainerName,
                                       VolumeMounts |-> <<[Name |-> javaVolumeName,
                                                           MountPath |-> javaInstrMountPath]>>])]
    IN  IF err # "nil" THEN [pod |-> marked, err |-> err]
        ELSE IF ~shouldInjectADOTSDKRev2(marked.Containers[idx].Env)
             THEN [pod |-> marked, err |-> "nil"]
        ELSE IF isInitContainerMissing(withEnv, javaInitContainerName)
             THEN [pod |-> withInit, err |-> "nil"]
        ELSE [pod |-> withEnv, err |-> "nil"]

----------------------------------------------------------------------------
(* Inputs and specifications *)

\* endpoint values of the env views
FirstPartyWithPort ==
    <<"https", "://">> \o cloudwatchAgentStandardEndpoint \o <<":">> \o cloudwatchAgentPort
FirstPartyNoPort == <<"http", "://">> \o cloudwatchAgentStandardEndpoint
ThirdParty == <<"https", "://", "thirdparty", "/", "v1">>
\* another host, whose name starts with the agent's
HostPrefixed == <<"https", "://">> \o cloudwatchAgentStandardEndpoint \o <<".evil.example">>

\* nothing, or one variable of that name with one of the values
Optional(name, values) == {<<>>} \cup {<<EnvVar(name, v)>> : v \in values}

\* the env views of the policy: the flag and the four endpoint roles, each absent or set
PolicyViews ==
    {f \o g \o t \o m \o l :
        f \in Optional(OTEL_AWS_APPLICATION_SIGNALS_ENABLED,
                       {<<"true">>, <<"TRUE">>, <<"false">>}),
        g \in Optional(OTEL_EXPORTER_OTLP_ENDPOINT,
                       {EmptyString, ThirdParty, FirstPartyWithPort, FirstPartyNoPort,
                        HostPrefixed}),
        t \in Optional(OTEL_EXPORTER_OTLP_TRACES_ENDPOINT,
                       {ThirdParty, FirstPartyWithPort, HostPrefixed}),
        m \in Optional(OTEL_EXPORTER_OTLP_METRICS_ENDPOINT, {ThirdParty, FirstPartyWithPort}),
        l \in Optional(OTEL_EXPORTER_OTLP_LOGS_ENDPOINT, {ThirdParty, FirstPartyWithPort})}

\* *corev1.PodSecurityContext / *corev1.SecurityContext: nil, or RunAsNonRoot (*bool)
\* and RunAsUser (*int64)
SecurityContexts ==
    {Nil} \cup {Some([RunAsNonRoot |-> n, RunAsUser |-> u]) :
                    n \in {Nil, Some(TRUE), Some(FALSE)}, u \in {Nil, Some(0), Some(1000)}}

\* the strings handed to the classifier: every string of at most MaxEndpointLen tokens
EndpointTokens ==
    {"https", "://", "/", ":", "evil.example", ".evil.example"}
        \cup {cloudwatchAgentStandardEndpoint[1], cloudwatchAgentWindowsEndpoint[1],
              cloudwatchAgentPort[1]}

Endpoints == UNION {[1..n -> EndpointTokens] : n \in 0..MaxEndpointLen}

\* the variables of the other components while one component runs
PolicyIdle ==
    /\ envView = <<>>
    /\ podSC = Nil
    /\ ctrSC = Nil
    /\ verdict = [fn |-> "none", result |-> FALSE]

ValidatorIdle ==
    /\ ctrs = <<>>
    /\ duplicated = [called |-> FALSE, err |-> FALSE, duplicates |-> <<>>]

MutatorIdle ==
    /\ podObj = <<>>
    /\ javaSpec = <<>>
    /\ index = 0
    /\ passes = 0
    /\ passLog = <<>>

ResolverIdle ==
    /\ containers = <<>>
    /\ configMapCache = <<>>
    /\ secretCache = <<>>
    /\ lastCall = [container |-> 0, down |-> {}, cmBefore |-> <<>>, secBefore |-> <<>>,
                   gets |-> <<>>, view |-> <<>>]

InjectIdle ==
    /\ injEnvs = <<>>
    /\ injOrig = <<>>
    /\ injLast = [rev |-> 0, name |-> <<>>, value |-> <<>>, present |-> FALSE,
                  decision |-> FALSE]
    /\ injAttempts = 0

ClassifierIdle ==
    /\ endpoint = <<>>
    /\ classified = [rev |-> 0, result |-> FALSE]

InitClassifier ==
    /\ endpoint \in Endpoints
    /\ classified = [rev |-> 0, result |-> FALSE]
    /\ PolicyIdle
    /\ InjectIdle
    /\ ResolverIdle
    /\ MutatorIdle
    /\ ValidatorIdle

\* a call of containsCloudWatchAgent of the first revision
ClassifyCall ==
    /\ classified.rev = 0
    /\ classified' = [rev |-> 1, result |-> containsCloudWatchAgent(endpoint)]
    /\ UNCHANGED <<endpoint, policyVars, injectVars, resolverVars, mutatorVars, validatorVars>>

\* a call of containsCloudWatchAgent of the second revision
ClassifyRev2Call ==
    /\ classified.rev = 0
    /\ classified' = [rev |-> 2, result |-> containsCloudWatchAgentRev2(endpoint)]
    /\ UNCHANGED <<endpoint, policyVars, injectVars, resolverVars, mutatorVars, validatorVars>>

NextClassifier == ClassifyCall \/ ClassifyRev2Call

SpecClassifier == InitClassifier /\ [][NextClassifier]_vars

----------------------------------------------------------------------------
(* C3 *)

\* position of the first scheme separator of e, 0 when there is none
SchemeSeparatorAt(e) ==
    IF \E i \in 1..Len(e) : e[i] = "://"
    THEN CHOOSE i \in 1..Len(e) : e[i] = "://" /\ \A j \in 1..(i - 1) : e[j] # "://"
    ELSE 0

\* the authority component: what follows the scheme separator, up to the path
Authority(e) ==
    LET s    == SchemeSeparatorAt(e)
        rest == SubSeq(e, s + 1, Len(e))
        stop == IF \E i \in 1..Len(rest) : rest[i] = "/"
                THEN (CHOOSE i \in 1..Len(rest) :
                          rest[i] = "/" /\ \A j \in 1..(i - 1) : rest[j] # "/") - 1
                ELSE Len(rest)
    IN  SubSeq(rest, 1, stop)

FirstPartyAuthorities ==
    {cloudwatchAgentStandardEndpoint,
     cloudwatchAgentStandardEndpoint \o <<":">> \o cloudwatchAgentPort,
     cloudwatchAgentWindowsEndpoint,
     cloudwatchAgentWindowsEndpoint \o <<":">> \o cloudwatchAgentPort}

\* the classification the specification asks for
IsFirstPartyEndpoint(e) ==
    SchemeSeparatorAt(e) # 0 /\ Authority(e) \in FirstPartyAuthorities

\* C3: containsCloudWatchAgent returns true iff the authority (the host directly
\* after "://") is exactly one of the two first-party service addresses,
\* optionally followed by the fixed port.
C3_ClassifierMatchesAuthority ==
    classified.rev = 1 => (classified.result <=> IsFirstPartyEndpoint(endpoint))

\* the two endpoints the specification names are classified as it says
C3_NamedExamples ==
    classified.rev # 0 =>
        /\ endpoint = <<"https", "://">> \o cloudwatchAgentStandardEndpoint
                          \o <<":">> \o cloudwatchAgentPort
              => classified.result
        /\ endpoint = <<"https", "://", "evil.example", "/">>
                          \o cloudwatchAgentStandardEndpoint
              => ~classified.result

----------------------------------------------------------------------------
(* The policy decisions, each on every env view *)

InitPolicy ==
    /\ envView \in PolicyViews
    /\ podSC = Nil
    /\ ctrSC = Nil
    /\ verdict = [fn |-> "none", result |-> FALSE]
    /\ ClassifierIdle
    /\ InjectIdle
    /\ ResolverIdle
    /\ MutatorIdle
    /\ ValidatorIdle

\* shouldInjectADOTSDK(envs, pod, container) on the view, for a pod and a container
\* with any security contexts
shouldInjectADOTSDKCall ==
    /\ verdict.fn = "none"
    /\ \E p \in SecurityContexts, c \in SecurityContexts :
          /\ podSC' = p
          /\ ctrSC' = c
          /\ verdict' = [fn     |-> "shouldInjectADOTSDK",
                         result |-> shouldInjectADOTSDK(envView,
                                                        [SecurityContext |-> p],
                                                        [SecurityContext |-> c])]
    /\ UNCHANGED <<envView, classifierVars, injectVars, resolverVars, mutatorVars, validatorVars>>

shouldInjectADOTSDKRev2Call ==
    /\ verdict.fn = "none"
    /\ verdict' = [fn |-> "shouldInjectADOTSDKRev2", result |-> shouldInjectADOTSDKRev2(envView)]
    /\ UNCHANGED <<envView, podSC, ctrSC, classifierVars, injectVars, resolverVars, mutatorVars, validatorVars>>

shouldDisableMetricsCall ==
    /\ verdict.fn = "none"
    /\ verdict' = [fn |-> "shouldDisableMetrics", result |-> shouldDisableMetrics(envView)]
    /\ UNCHANGED <<envView, podSC, ctrSC, classifierVars, injectVars, resolverVars, mutatorVars, validatorVars>>

shouldDisableLogsCall ==
    /\ verdict.fn = "none"
    /\ verdict' = [fn |-> "shouldDisableLogs", result |-> shouldDisableLogs(envView)]
    /\ UNCHANGED <<envView, podSC, ctrSC, classifierVars, injectVars, resolverVars, mutatorVars, validatorVars>>

shouldOverrideTracesEndpointCall ==
    /\ verdict.fn = "none"
    /\ verdict' = [fn     |-> "shouldOverrideTracesEndpoint",
                   result |-> shouldOverrideTracesEndpoint(envView)]
    /\ UNCHANGED <<envView, podSC, ctrSC, classifierVars, injectVars, resolverVars, mutatorVars, validatorVars>>

NextPolicy ==
    \/ shouldInjectADOTSDKCall
    \/ shouldInjectADOTSDKRev2Call
    \/ shouldDisableMetricsCall
    \/ shouldDisableLogsCall
    \/ shouldOverrideTracesEndpointCall

SpecPolicy == InitPolicy /\ [][NextPolicy]_vars

----------------------------------------------------------------------------
(* C4 *)

\* the constraints require non-root
RequiresNonRoot(sc) == sc # Nil /\ sc[1].RunAsNonRoot = Some(TRUE)

\* the fixed user ID of the constraints, Nil when there is none
FixedUserID(sc) == IF sc = Nil THEN Nil ELSE sc[1].RunAsUser

\* container value, else pod value
EffectiveUserID(container, pod) ==
    IF FixedUserID(container) # Nil THEN FixedUserID(container) ELSE FixedUserID(pod)

PodVeto == RequiresNonRoot(podSC) /\ FixedUserID(podSC) = Nil
ContainerVeto == RequiresNonRoot(ctrSC) /\ EffectiveUserID(ctrSC, podSC) = Nil

\* C4: pod-level requireNonRoot without a fixed user ID refuses the install for
\* every env view and every container security context, and so does
\* container-level requireNonRoot without an effective user ID.
C4_SecurityVeto ==
    verdict.fn = "shouldInjectADOTSDK" =>
        /\ PodVeto => ~verdict.result
        /\ ContainerVeto => ~verdict.result

\* the pod veto acted against the enablement flag and a container user ID
C4_Witness ==
    /\ verdict.fn = "shouldInjectADOTSDK"
    /\ PodVeto
    /\ FixedUserID(ctrSC) # Nil
    /\ isApplicationSignalsExplicitlyEnabled(envView)
    /\ ~verdict.result

\* the container veto acted although the pod has no constraints
C4_WitnessContainer ==
    /\ verdict.fn = "shouldInjectADOTSDK"
    /\ ~PodVeto
    /\ ContainerVeto
    /\ isApplicationSignalsExplicitlyEnabled(envView)
    /\ ~verdict.result

----------------------------------------------------------------------------
(* C5 *)

EndpointRoles ==
    {OTEL_EXPORTER_OTLP_ENDPOINT, OTEL_EXPORTER_OTLP_TRACES_ENDPOINT,
     OTEL_EXPORTER_OTLP_METRICS_ENDPOINT, OTEL_EXPORTER_OTLP_LOGS_ENDPOINT}

\* the enablement flag is present and true
FlagTrue(envs) ==
    LET v == getEnvValue(envs, OTEL_AWS_APPLICATION_SIGNALS_ENABLED)
    IN  Len(v) = 1 /\ Fold(v[1]) = "true"

\* the role's variable is set, to an endpoint that is not first-party
SetToThirdParty(envs, role) ==
    /\ getEnvValue(envs, role) # EmptyString
    /\ ~IsFirstPartyEndpoint(getEnvValue(envs, role))

\* C5: absent a security veto, shouldInstallAgent returns true iff the enablement
\* flag is present and true, or no endpoint role is set to a non-first-party
\* endpoint.
C5_InstallDecision ==
    (verdict.fn = "shouldInjectADOTSDK" /\ ~PodVeto /\ ~ContainerVeto) =>
        (verdict.result <=>
            \/ FlagTrue(envView)
            \/ \A role \in EndpointRoles : ~SetToThirdParty(envView, role))

\* the same decision, with "first-party" read as what containsCloudWatchAgent accepts
C5_InstallDecisionByClassifier ==
    (verdict.fn = "shouldInjectADOTSDK" /\ ~PodVeto /\ ~ContainerVeto) =>
        (verdict.result <=>
            \/ FlagTrue(envView)
            \/ \A role \in EndpointRoles :
                  \/ getEnvValue(envView, role) = EmptyString
                  \/ containsCloudWatchAgent(getEnvValue(envView, role)))

\* the two cases the specification names
C5_NamedExamples ==
    (verdict.fn = "shouldInjectADOTSDK" /\ ~PodVeto /\ ~ContainerVeto) =>
        /\ (FlagTrue(envView) /\ getEnvValue(envView, OTEL_EXPORTER_OTLP_ENDPOINT) = ThirdParty)
              => verdict.result
        /\ (/\ getEnvValue(envView, OTEL_AWS_APPLICATION_SIGNALS_ENABLED) = EmptyString
            /\ getEnvValue(envView, OTEL_EXPORTER_OTLP_TRACES_ENDPOINT) = ThirdParty)
              => ~verdict.result

----------------------------------------------------------------------------
(* C6 *)

\* the role-specific endpoint variable each per-signal decision looks at
SignalRole(fn) ==
    CASE fn = "shouldDisableMetrics"         -> OTEL_EXPORTER_OTLP_METRICS_ENDPOINT
      [] fn = "shouldDisableLogs"            -> OTEL_EXPORTER_OTLP_LOGS_ENDPOINT
      [] fn = "shouldOverrideTracesEndpoint" -> OTEL_EXPORTER_OTLP_TRACES_ENDPOINT

SignalDecisions ==
    {"shouldDisableMetrics", "shouldDisableLogs", "shouldOverrideTracesEndpoint"}

\* C6: each per-signal decision is true unless its own endpoint variable is set,
\* or the generic OTLP endpoint is third-party while the enablement flag is true.
C6_SignalGates ==
    verdict.fn \in SignalDecisions =>
        (verdict.result <=>
            ~(\/ getEnvValue(envView, SignalRole(verdict.fn)) # EmptyString
              \/ (/\ SetToThirdParty(envView, OTEL_EXPORTER_OTLP_ENDPOINT)
                  /\ FlagTrue(envView))))

\* the same gates, with "third-party" read as what containsCloudWatchAgent
\* (second revision) rejects
C6_SignalGatesByClassifier ==
    verdict.fn \in SignalDecisions =>
        (verdict.result <=>
            ~(\/ getEnvValue(envView, SignalRole(verdict.fn)) # EmptyString
              \/ (/\ getEnvValue(envView, OTEL_EXPORTER_OTLP_ENDPOINT) # EmptyString
                  /\ ~containsCloudWatchAgentRev2(
                         getEnvValue(envView, OTEL_EXPORTER_OTLP_ENDPOINT))
                  /\ FlagTrue(envView))))

\* the case the specification names
C6_NamedExample ==
    (/\ verdict.fn = "shouldDisableMetrics"
     /\ FlagTrue(envView)
     /\ getEnvValue(envView, OTEL_EXPORTER_OTLP_ENDPOINT) = ThirdParty)
        => ~verdict.result

----------------------------------------------------------------------------
(* The loop over the proposed variables (javaagent.go:66-83) *)

OTEL_PROPAGATORS == <<"OTEL_", "PROPAGATORS">>
LOG_LEVEL == <<"LOG_LEVEL">>

\* the variables a container may carry before the loop
InjectPairs ==
    {EnvVar(OTEL_AWS_APPLICATION_SIGNALS_ENABLED, <<"true">>),
     EnvVar(OTEL_AWS_APPLICATION_SIGNALS_ENABLED, <<"false">>),
     EnvVar(OTEL_PROPAGATORS, <<"b3">>),
     EnvVar(OTEL_PROPAGATORS, EmptyString),
     EnvVar(LOG_LEVEL, <<"info">>),
     EnvVar(LOG_LEVEL, EmptyString)}

InjectViews == UNION {[1..n -> InjectPairs] : n \in 0..MaxViewLen}

\* the variables an instrumentation spec proposes
Proposals ==
    {EnvVar(OTEL_PROPAGATORS, <<"tracecontext">>),
     EnvVar(LOG_LEVEL, <<"debug">>),
     EnvVar(OTEL_METRICS_EXPORTER, <<"none">>),
     EnvVar(OTEL_EXPORTER_OTLP_TRACES_ENDPOINT, FirstPartyWithPort)}

\* a variable of that name occurs in the list
HasName(envs, name) == \E i \in 1..Len(envs) : envs[i].Name = name

InitInject ==
    /\ injEnvs \in InjectViews
    /\ injOrig = injEnvs
    /\ injLast = [rev |-> 0, name |-> <<>>, value |-> <<>>, present |-> FALSE,
                  decision |-> FALSE]
    /\ injAttempts = 0
    /\ ClassifierIdle
    /\ PolicyIdle
    /\ ResolverIdle
    /\ MutatorIdle
    /\ ValidatorIdle

\* one turn of the loop, deciding with shouldInjectEnvVar(envs, envName)
InjectEnvVar ==
    /\ injAttempts < MaxInjections
    /\ \E env \in Proposals :
          LET decision == shouldInjectEnvVar(injEnvs, env.Name)
          IN  /\ injEnvs' = IF decision THEN Append(injEnvs, env) ELSE injEnvs
              /\ injLast' = [rev |-> 1, name |-> env.Name, value |-> env.Value,
                             present |-> HasName(injEnvs, env.Name),
                             decision |-> decision]
    /\ injAttempts' = injAttempts + 1
    /\ UNCHANGED <<injOrig, classifierVars, policyVars, resolverVars, mutatorVars, validatorVars>>

\* one turn of the loop, deciding with shouldInjectEnvVar(envs, envName, envValue)
InjectEnvVarRev2 ==
    /\ injAttempts < MaxInjections
    /\ \E env \in Proposals :
          LET decision == shouldInjectEnvVarRev2(injEnvs, env.Name, env.Value)
          IN  /\ injEnvs' = IF decision THEN Append(injEnvs, env) ELSE injEnvs
              /\ injLast' = [rev |-> 2, name |-> env.Name, value |-> env.Value,
                             present |-> HasName(injEnvs, env.Name),
                             decision |-> decision]
    /\ injAttempts' = injAttempts + 1
    /\ UNCHANGED <<injOrig, classifierVars, policyVars, resolverVars, mutatorVars, validatorVars>>

NextInject == InjectEnvVar \/ InjectEnvVarRev2

SpecInject == InitInject /\ [][NextInject]_vars

----------------------------------------------------------------------------
(* C2 *)

\* the variables of that name, in order
Named(envs, name) == SelectSeq(envs, LAMBDA e : e.Name = name)

NamesOf(envs) == {envs[i].Name : i \in 1..Len(envs)}

\* C2: if a variable of the proposed name occurs anywhere in the view, whatever
\* its value, the decision is false; so after any sequence of injections every
\* name of the original view still has exactly its original occurrences.
C2_NeverOverrides ==
    /\ (injLast.rev # 0 /\ injLast.present) => ~injLast.decision
    /\ \A n \in NamesOf(injOrig) : Named(injEnvs, n) = Named(injOrig, n)

\* what the code keeps: a name whose first occurrence has a non-empty value is
\* never proposed successfully, and its occurrences stay as they were
C2_NonEmptyNeverOverridden ==
    /\ (injLast.rev # 0 /\ getEnvValue(injOrig, injLast.name) # EmptyString)
          => ~injLast.decision
    /\ \A n \in NamesOf(injOrig) :
          getEnvValue(injOrig, n) # EmptyString => Named(injEnvs, n) = Named(injOrig, n)

----------------------------------------------------------------------------
(* C7 *)

\* the names that control exporter selection, sampling or the traces endpoint
SignalNames ==
    {OTEL_METRICS_EXPORTER, OTEL_LOGS_EXPORTER, OTEL_TRACES_EXPORTER,
     OTEL_EXPORTER_OTLP_TRACES_ENDPOINT,
     <<"OTEL_", "TRACES_SAMPLER">>, <<"OTEL_", "TRACES_SAMPLER_ARG">>}

\* C7: for a name that controls neither exporter selection, sampling nor the
\* traces endpoint, the decision is true iff no variable of that name is in the
\* view, whatever the enablement flag.
C7_InjectedIffAbsent ==
    (injLast.rev # 0 /\ injLast.name \notin SignalNames) =>
        (injLast.decision <=> ~injLast.present)

----------------------------------------------------------------------------
(* Resolving the env views of a pod's containers in one mutation pass *)

BundleNames == {"app-config", "extra-config"}

API_TOKEN == <<"API_TOKEN">>

\* the bundles of the namespace; their contents do not change during the pass
Store ==
    [r \in {ConfigMapRef("app-config"), ConfigMapRef("extra-config"),
            SecretRef("app-config")} |->
        CASE r = ConfigMapRef("app-config") ->
                 {EnvVar(OTEL_EXPORTER_OTLP_ENDPOINT, ThirdParty),
                  EnvVar(LOG_LEVEL, <<"debug">>)}
          [] r = ConfigMapRef("extra-config") ->
                 {EnvVar(LOG_LEVEL, <<"warn">>)}
          [] r = SecretRef("app-config") ->
                 {EnvVar(API_TOKEN, <<"s3cr3t">>)}]

Refs == DOMAIN Store

\* the env sources of a container: at most MaxSources different references, in
\* any order
SourceLists ==
    {l \in UNION {[1..n -> Refs] : n \in 0..MaxSources} :
        \A i, j \in DOMAIN l : l[i] = l[j] => i = j}

\* the directly declared variables of the first container (names are distinct:
\* env is a list keyed by name)
DirectEnvs ==
    {<<>>,
     <<EnvVar(LOG_LEVEL, <<"info">>)>>,
     <<EnvVar(OTEL_EXPORTER_OTLP_ENDPOINT, FirstPartyWithPort),
       EnvVar(LOG_LEVEL, <<"info">>)>>}

\* what Get may answer: for each bundle an error, or the bundle
Clients == {[r \in Refs |-> IF r \in down THEN Nil ELSE Some(Store[r])] : down \in SUBSET Refs}

InitResolver ==
    /\ \E env \in DirectEnvs, from1 \in SourceLists,
          from2 \in {<<ConfigMapRef("app-config")>>,
                     <<ConfigMapRef("extra-config"), ConfigMapRef("app-config")>>} :
          containers = <<[Env |-> env, EnvFrom |-> from1],
                         [Env |-> <<>>, EnvFrom |-> from2]>>
    /\ configMapCache = [n \in BundleNames |-> Nil]
    /\ secretCache = [n \in BundleNames |-> Nil]
    /\ lastCall = [container |-> 0, down |-> {}, cmBefore |-> <<>>, secBefore |-> <<>>,
                   gets |-> <<>>, view |-> <<>>]
    /\ ClassifierIdle
    /\ PolicyIdle
    /\ InjectIdle
    /\ MutatorIdle
    /\ ValidatorIdle

\* getAllEnvVars for one container of the pod, with the pass's caches; Get
\* fails for the bundles of down, and each range visits its map in some order
getAllEnvVarsCall(c) ==
    \E k8sClient \in Clients :
    \E iteration \in [1..Len(containers[c].EnvFrom) -> UNION {Iterations(Store[r]) : r \in Refs}] :
        /\ \A i \in DOMAIN iteration : iteration[i] \in Iterations(Store[containers[c].EnvFrom[i]])
        /\ LET out == getAllEnvVars(k8sClient, containers[c], configMapCache, secretCache,
                                    iteration)
           IN  /\ configMapCache' = out.configMapCache
               /\ secretCache' = out.secretCache
               /\ lastCall' = [container |-> c,
                               down      |-> {r \in Refs : k8sClient[r] = Nil},
                               cmBefore  |-> configMapCache,
                               secBefore |-> secretCache,
                               gets      |-> out.gets,
                               view      |-> out.allEnvs]
        /\ UNCHANGED <<containers, classifierVars, policyVars, injectVars, mutatorVars, validatorVars>>

NextResolver == \E c \in 1..Len(containers) : getAllEnvVarsCall(c)

SpecResolver == InitResolver /\ [][NextResolver]_vars

----------------------------------------------------------------------------
(* C8, C9, C10 *)

Called == lastCall.container # 0
CalledContainer == containers[lastCall.container]

\* the bundles the resolved container references
Referenced == {CalledContainer.EnvFrom[i] : i \in 1..Len(CalledContainer.EnvFrom)}

\* the bundle was in the pass's cache when the call began
CachedBefore(r) ==
    IF r.kind = "ConfigMap" THEN lastCall.cmBefore[r.name] # Nil
    ELSE lastCall.secBefore[r.name] # Nil

\* the bundle is in the pass's cache now
CachedNow(r) ==
    IF r.kind = "ConfigMap" THEN configMapCache[r.name] # Nil ELSE secretCache[r.name] # Nil

\* the call asked the store for the bundle and the fetch failed
FetchFailed(r) == r \in Referenced /\ ~CachedBefore(r) /\ r \in lastCall.down

\* the call had the bundle's contents: from the cache, or from a fetch that succeeded
Served(r) == r \in Referenced /\ (CachedBefore(r) \/ r \notin lastCall.down)

KeysOf(r) == {e.Name : e \in Store[r]}

FirstServedWith(name) ==
    CHOOSE i \in 1..Len(CalledContainer.EnvFrom) :
        /\ Served(CalledContainer.EnvFrom[i]) /\ name \in KeysOf(CalledContainer.EnvFrom[i])
        /\ \A j \in 1..(i - 1) :
              ~(Served(CalledContainer.EnvFrom[j]) /\ name \in KeysOf(CalledContainer.EnvFrom[j]))

\* C9: a bundle entry is appended only if its name is not among the variables
\* accumulated so far, so a name no direct variable has appears at most once
\* in the view, with the value of the earliest source that defines it.
C9_AppendsOnlyNewNames ==
    Called =>
        \A n \in NamesOf(lastCall.view) :
            ~HasName(CalledContainer.Env, n) =>
                /\ Len(Named(lastCall.view, n)) = 1
                /\ Named(lastCall.view, n)[1] \in Store[CalledContainer.EnvFrom[FirstServedWith(n)]]

\* what the code keeps: the entries of the served sources, source by source,
\* less those whose name a direct variable has
C9_AppendsUndeclaredNames ==
    Called =>
        \A r \in Referenced : \A e \in Store[r] :
            (Served(r) /\ ~HasName(CalledContainer.Env, e.Name)) =>
                Len(SelectSeq(lastCall.view, LAMBDA x : x = e))
                    = Cardinality({i \in 1..Len(CalledContainer.EnvFrom) :
                                       CalledContainer.EnvFrom[i] = r})

\* the part of the view after the direct variables
Appended == SubSeq(lastCall.view, Len(CalledContainer.Env) + 1, Len(lastCall.view))

\* C10: whatever bundles fail to be fetched, the view holds all direct
\* variables and, subject to shadowing, the entries of every bundle the call
\* had; a bundle whose fetch failed contributes nothing and is not cached.
C10_FetchFailuresIsolated ==
    Called =>
        /\ SubSeq(lastCall.view, 1, Len(CalledContainer.Env)) = CalledContainer.Env
        /\ \A r \in Referenced : Served(r) =>
              \A e \in Store[r] :
                  /\ HasName(lastCall.view, e.Name)
                  /\ ~HasName(CalledContainer.Env, e.Name)
                        => \E i \in 1..Len(Appended) : Appended[i] = e
        /\ \A i \in 1..Len(Appended) :
              \E r \in Referenced : Served(r) /\ Appended[i] \in Store[r]
        /\ \A r \in Referenced : FetchFailed(r) => ~CachedNow(r)

\* a fetch failed, and a source listed after the failed one was fetched and
\* contributes to the view
C10_Witness ==
    /\ Called
    /\ \E i, j \in 1..Len(CalledContainer.EnvFrom) :
          /\ i < j
          /\ FetchFailed(CalledContainer.EnvFrom[i])
          /\ ~CachedBefore(CalledContainer.EnvFrom[j])
          /\ Served(CalledContainer.EnvFrom[j])
          /\ \E k \in 1..Len(Appended) : Appended[k] \in Store[CalledContainer.EnvFrom[j]]
    /\ Len(CalledContainer.Env) > 0

----------------------------------------------------------------------------
(* Mutation passes over one pod *)

\* a variable whose value comes from a source
EnvVarFrom(name) == [Name |-> name, Value |-> EmptyString, ValueFrom |-> "secretKeyRef"]

\* the env of the application container before the first pass
ApplicationEnvs ==
    {<<>>,
     <<EnvVar(OTEL_EXPORTER_OTLP_TRACES_ENDPOINT, ThirdParty)>>,
     <<EnvVar(OTEL_AWS_APPLICATION_SIGNALS_ENABLED, <<"true">>),
       EnvVar(OTEL_EXPORTER_OTLP_ENDPOINT, ThirdParty)>>,
     <<EnvVar(envJavaToolsOptions, <<"-Xmx1g">>)>>,
     <<EnvVarFrom(envJavaToolsOptions)>>}

\* the containers beside the application container
OtherContainers ==
    {<<>>,
     <<[Name |-> namingContainer, Env |-> <<EnvVar(EnvNodeName, <<"node-1">>)>>,
        VolumeMounts |-> <<>>]>>,
     <<[Name |-> "worker", Env |-> <<EnvVar(EnvNodeName, <<"node-1">>)>>,
        VolumeMounts |-> <<>>]>>,
     <<[Name |-> sideCarName, Env |-> <<>>, VolumeMounts |-> <<>>]>>}

InitContainerLists ==
    {<<>>,
     <<[Name |-> "init-db", VolumeMounts |-> <<>>]>>,
     <<[Name |-> pythonInitContainerName, VolumeMounts |-> <<>>]>>,
     <<[Name |-> javaInitContainerName,
        VolumeMounts |-> <<[Name |-> javaVolumeName, MountPath |-> javaInstrMountPath]>>]>>}

VolumeLists == {<<>>, <<[Name |-> "data", SizeLimit |-> Nil]>>}

\* v1alpha1.Java: the proposed variables and the volume size
JavaSpecs ==
    {[Env |-> <<>>, VolumeSizeLimit |-> Nil],
     [Env |-> <<EnvVar(OTEL_PROPAGATORS, <<"tracecontext">>),
                EnvVar(OTEL_METRICS_EXPORTER, <<"none">>)>>,
      VolumeSizeLimit |-> Some("500Mi")]}

InitMutator ==
    /\ \E env \in ApplicationEnvs, others \in OtherContainers,
          inits \in InitContainerLists, volumes \in VolumeLists :
          podObj = [InitContainers |-> inits,
                    Containers     |-> <<[Name |-> "app", Env |-> env,
                                          VolumeMounts |-> <<>>]>> \o others,
                    Volumes        |-> volumes]
    /\ javaSpec \in JavaSpecs
    /\ index \in 1..Len(podObj.Containers)
    /\ passes = 0
    /\ passLog = [before |-> podObj, first |-> podObj, err |-> "nil", skipped |-> FALSE]
    /\ ClassifierIdle
    /\ PolicyIdle
    /\ InjectIdle
    /\ ResolverIdle
    /\ ValidatorIdle

\* a pass over a pod the guard reports as instrumented: nothing is mutated
PassSkipped ==
    /\ passes < MaxPasses
    /\ isAutoInstrumentationInjected(podObj)
    /\ passes' = passes + 1
    /\ passLog' = [before  |-> podObj,
                   first   |-> IF passes = 0 THEN podObj ELSE passLog.first,
                   err     |-> "nil",
                   skipped |-> TRUE]
    /\ UNCHANGED <<podObj, javaSpec, index, classifierVars, policyVars, injectVars,
                   resolverVars, validatorVars>>

\* a pass over a pod the guard reports as not instrumented: injectJavaagent on
\* the target container
PassInjects ==
    /\ passes < MaxPasses
    /\ ~isAutoInstrumentationInjected(podObj)
    /\ LET out == injectJavaagent(javaSpec, podObj, index)
       IN  /\ podObj' = out.pod
           /\ passLog' = [before  |-> podObj,
                          first   |-> IF passes = 0 THEN out.pod ELSE passLog.first,
                          err     |-> out.err,
                          skipped |-> FALSE]
    /\ passes' = passes + 1
    /\ UNCHANGED <<javaSpec, index, classifierVars, policyVars, injectVars, resolverVars,
                   validatorVars>>

NextMutator == PassSkipped \/ PassInjects

SpecMutator == InitMutator /\ [][NextMutator]_vars

----------------------------------------------------------------------------
(* C1 *)

\* C1: after one mutation pass a second identical pass returns the pod the
\* first pass returned, whatever the install gate decided.
C1_SecondPassIdentical ==
    passes >= 2 => podObj = passLog.first

\* what the code keeps: once the Java init container is in the pod, a pass
\* changes nothing
C1_InstrumentedPodUnchanged ==
    (passes >= 1 /\ ~isInitContainerMissing(passLog.before, javaInitContainerName))
        => podObj = passLog.before

----------------------------------------------------------------------------
(* C11 *)

\* the bundles a recorded call's container references
ReferencedBy(call) ==
    {containers[call.container].EnvFrom[i] :
        i \in 1..Len(containers[call.container].EnvFrom)}

\* the bundles whose contents a recorded call had, from the cache or from a fetch
ServedBy(call) ==
    {r \in ReferencedBy(call) :
        \/ IF r.kind = "ConfigMap" THEN call.cmBefore[r.name] # Nil
           ELSE call.secBefore[r.name] # Nil
        \/ r \notin call.down}

\* two successive resolutions of one container that had the same bundles
SameResolutionAgain ==
    /\ lastCall.container # 0
    /\ lastCall'.container = lastCall.container
    /\ ServedBy(lastCall') = ServedBy(lastCall)

\* the first variable of that name in a view
Winner(view, name) == Head(Named(view, name))

\* C11: two resolutions of the same container with the same bundle contents
\* give the same sequence, element by element, whether a bundle came from the
\* cache or from a fetch.
C11_ResolverDeterministic ==
    [][SameResolutionAgain => lastCall'.view = lastCall.view]_vars

\* what the code keeps: the two views hold the same variables, each as often,
\* and the same first variable for every name
C11_SameVariablesSameWinners ==
    [][SameResolutionAgain =>
          /\ Len(lastCall'.view) = Len(lastCall.view)
          /\ \A n \in NamesOf(lastCall.view) \cup NamesOf(lastCall'.view) :
                /\ Len(Named(lastCall'.view, n)) = Len(Named(lastCall.view, n))
                /\ \A v \in {Named(lastCall.view, n)[i] : i \in 1..Len(Named(lastCall.view, n))} :
                      \E i \in 1..Len(Named(lastCall'.view, n)) : Named(lastCall'.view, n)[i] = v
                /\ Winner(lastCall'.view, n) = Winner(lastCall.view, n)]_vars

----------------------------------------------------------------------------
(* Duplicate-target validator *)

MaxEntries == 4

Comma == ","

\* strings.Join(elems, ","): the strings with a comma between neighbours
RECURSIVE Join(_)
Join(elems) ==
    IF elems = <<>> THEN EmptyString
    ELSE IF Len(elems) = 1 THEN elems[1]
    ELSE elems[1] \o <<Comma>> \o Join(Tail(elems))

\* strings.Split(s, ","): the pieces between the commas; one empty piece for
\* the empty string
RECURSIVE Split(_)
Split(s) ==
    IF \A i \in 1..Len(s) : s[i] # Comma THEN <<s>>
    ELSE LET i == CHOOSE k \in 1..Len(s) :
                      s[k] = Comma /\ \A m \in 1..(k - 1) : s[m] # Comma
         IN  <<SubSeq(s, 1, i - 1)>> \o Split(SubSeq(s, i + 1, Len(s)))

\* the byte of a one-letter token
Byte == ("a" :> 97 @@ "b" :> 98 @@ "c" :> 99)

\* s < t on strings: bytewise lexicographic
RECURSIVE StringLess(_, _)
StringLess(s, t) ==
    IF t = <<>> THEN FALSE
    ELSE IF s = <<>> THEN TRUE
    ELSE IF Byte[Head(s)] # Byte[Head(t)] THEN Byte[Head(s)] < Byte[Head(t)]
    ELSE StringLess(Tail(s), Tail(t))

\* sort.Strings: the strings in increasing order
RECURSIVE sortStrings(_)
sortStrings(strs) ==
    IF strs = <<>> THEN <<>>
    ELSE LET least == CHOOSE i \in 1..Len(strs) :
                          \A k \in 1..Len(strs) : ~StringLess(strs[k], strs[i])
         IN  <<strs[least]>> \o
             sortStrings(SubSeq(strs, 1, least - 1) \o SubSeq(strs, least + 1, Len(strs)))

\* countMap of findDuplicatedContainers: how often each piece occurs
countMapOf(ctrList) ==
    LET splitContainers == Split(Join(ctrList))
    IN  [str \in {splitContainers[i] : i \in 1..Len(splitContainers)} |->
            Cardinality({i \in 1..Len(splitContainers) : splitContainers[i] = str})]

\* the orders in which the range over countMap may visit its keys
KeyOrders(ctrList) == Iterations(DOMAIN countMapOf(ctrList))

\* a slip: empty names are counted like the others
findDuplicatedContainersCountingEmpty(ctrList, iteration) ==
    LET countMap   == countMapOf(ctrList)
        duplicates == SelectSeq(iteration, LAMBDA str : countMap[str] > 1)
    IN  IF duplicates # <<>>
        THEN [called |-> TRUE, err |-> TRUE, duplicates |-> sortStrings(duplicates)]
        ELSE [called |-> TRUE, err |-> FALSE, duplicates |-> <<>>]

\* findDuplicatedContainers, helper.go:119.  iteration is the order in which
\* the range over countMap visits its keys; the result is nil (err = FALSE) or
\* the error with the names it lists.
findDuplicatedContainers(ctrList, iteration) ==
    LET countMap   == countMapOf(ctrList)
        duplicates == SelectSeq(iteration,
                                LAMBDA str : str # EmptyString /\ countMap[str] > 1)
    IN  IF duplicates # <<>>
        THEN [called |-> TRUE, err |-> TRUE, duplicates |-> sortStrings(duplicates)]
        ELSE [called |-> TRUE, err |-> FALSE, duplicates |-> <<>>]

\* container names, and the entries of a target list: a name or nothing
TargetNames == {"a", "b", "c"}
TargetEntries == {EmptyString} \cup {<<n>> : n \in TargetNames}

\* the target lists holding the entries in their order: entry i + 1 opens a new
\* list where cuts[i] holds, and follows a comma in the current list otherwise
RECURSIVE TargetListsFrom(_, _, _, _)
TargetListsFrom(entries, cuts, i, acc) ==
    IF i > Len(entries) THEN acc
    ELSE IF i = 1 \/ cuts[i - 1]
    THEN TargetListsFrom(entries, cuts, i + 1, Append(acc, entries[i]))
    ELSE TargetListsFrom(entries, cuts, i + 1,
                         [acc EXCEPT ![Len(acc)] = @ \o <<Comma>> \o entries[i]])

\* the comma-joined target lists of the instrumentations: at most MaxEntries
\* entries in all
TargetListsInputs ==
    UNION {{TargetListsFrom(entries, cuts, 1, <<>>) :
               entries \in [1..n -> TargetEntries], cuts \in [1..(n - 1) -> BOOLEAN]} :
           n \in 0..MaxEntries}

InitValidator ==
    /\ ctrs \in TargetListsInputs
    /\ duplicated = [called |-> FALSE, err |-> FALSE, duplicates |-> <<>>]
    /\ ClassifierIdle
    /\ PolicyIdle
    /\ InjectIdle
    /\ ResolverIdle
    /\ MutatorIdle

findDuplicatedContainersCall ==
    /\ ~duplicated.called
    /\ \E iteration \in KeyOrders(ctrs) :
          duplicated' = findDuplicatedContainers(ctrs, iteration)
    /\ UNCHANGED <<ctrs, classifierVars, policyVars, injectVars, resolverVars, mutatorVars>>

NextValidator == findDuplicatedContainersCall

SpecValidator == InitValidator /\ [][NextValidator]_vars

----------------------------------------------------------------------------
(* C12 *)

\* how often a name is an entry of the target lists
Occurrences(n) ==
    Cardinality({p \in (1..Len(ctrs)) \X (1..(2 * MaxEntries)) :
                    p[2] <= Len(ctrs[p[1]]) /\ ctrs[p[1]][p[2]] = n})

\* the names occurring more than once, in increasing order
RepeatedNames ==
    SelectSeq(<<<<"a">>, <<"b">>, <<"c">>>>, LAMBDA name : Occurrences(name[1]) > 1)

\* C12: findDuplicatedContainers returns an error iff some non-empty name
\* occurs more than once in the lists, and the error names exactly the names
\* occurring more than once, each once, in sorted order; empty entries never count.
C12_DuplicatesReported ==
    duplicated.called =>
        /\ duplicated.err <=> RepeatedNames # <<>>
        /\ duplicated.duplicates = RepeatedNames

\* the two lists the specification names
C12_NamedExamples ==
    duplicated.called =>
        /\ ctrs = <<<<"a", ",", "b">>, <<"b", ",", "c">>>>
              => duplicated.err /\ duplicated.duplicates = <<<<"b">>>>
        /\ ctrs = <<EmptyString, <<"a">>>> => ~duplicated.err

\* two names are repeated, the later one in the alphabet first in the lists,
\* and the error names them in order
C12_Witness ==
    /\ duplicated.called
    /\ ctrs = <<<<"b", ",", "a">>, <<"a", ",", "b">>>>
    /\ duplicated.duplicates = <<<<"a">>, <<"b">>>>

\* empty entries occur more than once and there is no error
C12_WitnessEmpty ==
    /\ duplicated.called
    /\ ctrs = <<<<"a", ",">>, EmptyString>>
    /\ ~duplicated.err

----------------------------------------------------------------------------
(* C13 *)

\* the last pass called injectJavaagent
MutatorCalled == passes >= 1 /\ ~passLog.skipped

\* every element of old is in new at the same position, unchanged
KeptAsPrefix(old, new) ==
    Len(old) <= Len(new) /\ SubSeq(new, 1, Len(old)) = old

\* the positions of old whose element is not the same in new
ChangedPositions(old, new) == {i \in 1..Len(old) : new[i] # old[i]}

\* init containers, volumes, the containers' names and their volume mounts
\* are kept as they were, with new elements only at the end
C13_FrameOutsideEnv ==
    /\ KeptAsPrefix(passLog.before.InitContainers, podObj.InitContainers)
    /\ KeptAsPrefix(passLog.before.Volumes, podObj.Volumes)
    /\ Len(podObj.Containers) = Len(passLog.before.Containers)
    /\ \A c \in 1..Len(podObj.Containers) :
          /\ podObj.Containers[c].Name = passLog.before.Containers[c].Name
          /\ KeptAsPrefix(passLog.before.Containers[c].VolumeMounts,
                          podObj.Containers[c].VolumeMounts)
          /\ Len(passLog.before.Containers[c].Env) <= Len(podObj.Containers[c].Env)

\* C13: every env variable, volume mount, volume and init container present
\* before a call of the mutator is present afterwards at the same position with
\* the same name and value; the mutator only adds elements at the end.
C13_AppendOnly ==
    MutatorCalled =>
        /\ C13_FrameOutsideEnv
        /\ \A c \in 1..Len(podObj.Containers) :
              KeptAsPrefix(passLog.before.Containers[c].Env, podObj.Containers[c].Env)

\* C13 as amended: the same, except that the value of one JAVA_TOOL_OPTIONS
\* variable of the target container may be extended at its end by the agent's
\* argument; its name and position are kept.
C13_AppendOnlyExceptJavaToolOptions ==
    MutatorCalled =>
        /\ C13_FrameOutsideEnv
        /\ \A c \in 1..Len(podObj.Containers) :
              LET old     == passLog.before.Containers[c].Env
                  new     == podObj.Containers[c].Env
                  changed == ChangedPositions(old, new)
              IN  /\ c # index => changed = {}
                  /\ Cardinality(changed) <= 1
                  /\ \A i \in changed :
                        /\ old[i].Name = envJavaToolsOptions
                        /\ new[i] = [old[i] EXCEPT !.Value = @ \o javaJVMArgument]

\* the target container had JAVA_TOOL_OPTIONS with a value, the agent was
\* installed, and the variable holds the old value followed by the argument
C13_Witness ==
    /\ MutatorCalled
    /\ ~isInitContainerMissing(podObj, javaInitContainerName)
    /\ \E i \in 1..Len(passLog.before.Containers[index].Env) :
          /\ passLog.before.Containers[index].Env[i].Name = envJavaToolsOptions
          /\ passLog.before.Containers[index].Env[i].Value # EmptyString
          /\ podObj.Containers[index].Env[i].Value =
                 passLog.before.Containers[index].Env[i].Value \o javaJVMArgument
    /\ Len(podObj.Containers[index].Env) > Len(passLog.before.Containers[index].Env)

----------------------------------------------------------------------------
(* C14 *)

\* the init container names of the runtimes
RuntimeInitContainerNames ==
    {dotnetInitContainerName, javaInitContainerName, nodejsInitContainerName,
     pythonInitContainerName, apacheAgentInitContainerName, apacheAgentCloneContainerName}

HasRuntimeInitContainer(p) ==
    \E i \in 1..Len(p.InitContainers) : p.InitContainers[i].Name \in RuntimeInitContainerNames

HasMarker(container) ==
    \E j \in 1..Len(container.Env) : container.Env[j].Name = EnvNodeName

\* a regular container other than the operator's own sidecar carries the marker
MarkerOutsideOwnSidecar(p) ==
    \E i \in 1..Len(p.Containers) :
        p.Containers[i].Name # namingContainer /\ HasMarker(p.Containers[i])

\* a container has the name of the sidecar the Go instrumentation adds
HasInstrumentationSidecar(p) ==
    \E i \in 1..Len(p.Containers) : p.Containers[i].Name = sideCarName

\* C14: the guard reports a pod as instrumented whenever an init container has
\* one of the runtimes' names or a regular container other than the operator's
\* own sidecar carries the marker variable, and reports a pod with neither as
\* not instrumented; the marker on the operator's own sidecar alone does not count.
C14_GuardPredicate ==
    passes >= 1 =>
        (passLog.skipped <=>
            HasRuntimeInitContainer(passLog.before) \/ MarkerOutsideOwnSidecar(passLog.before))

\* C14 as amended: a container named as the instrumentation sidecar is a third
\* artifact that makes the pod count as instrumented.
C14_GuardPredicateWithSidecarName ==
    passes >= 1 =>
        (passLog.skipped <=>
            \/ HasRuntimeInitContainer(passLog.before)
            \/ MarkerOutsideOwnSidecar(passLog.before)
            \/ HasInstrumentationSidecar(passLog.before))

\* the pod's only artifact was the marker on the operator's own sidecar, and
\* the guard let the mutator run
C14_Witness ==
    /\ passes >= 1
    /\ ~passLog.skipped
    /\ \E i \in 1..Len(passLog.before.Containers) :
          /\ passLog.before.Containers[i].Name = namingContainer
          /\ HasMarker(passLog.before.Containers[i])

----------------------------------------------------------------------------
(* C15 *)

\* the references the last call asked the store for
Fetched == {lastCall.gets[i] : i \in 1..Len(lastCall.gets)}

\* what the pass's cache holds for a bundle
CacheEntry(r) ==
    IF r.kind = "ConfigMap" THEN configMapCache[r.name] ELSE secretCache[r.name]

\* after a call: a bundle fetched with success is in the cache under its name
\* with its contents; the store was asked exactly for the referenced bundles
\* that were not in the cache; and a bundle that was in the cache
\* gives its entries to the view although the store would fail for it
C15_CacheUsed ==
    Called =>
        /\ \A r \in Referenced :
              (~CachedBefore(r) /\ r \notin lastCall.down) => CacheEntry(r) = Some(Store[r])
        /\ Fetched = {r \in Referenced : ~CachedBefore(r)}
        /\ \A r \in Referenced : CachedBefore(r) =>
              \A e \in Store[r] :
                  ~HasName(CalledContainer.Env, e.Name)
                      => \E i \in 1..Len(lastCall.view) : lastCall.view[i] = e

\* a step leaves every cache entry as it is
C15_CacheKept ==
    \A n \in BundleNames :
        /\ configMapCache[n] # Nil => configMapCache'[n] = configMapCache[n]
        /\ secretCache[n] # Nil => secretCache'[n] = secretCache[n]

\* C15: within one pass a bundle fetched with success is put in the cache under
\* its name, every later resolution referencing it uses the cached contents
\* without asking the store again, and a cache entry is never removed or replaced.
C15_CacheWithinPass == []C15_CacheUsed /\ [][C15_CacheKept]_vars

\* the second container is resolved after the first, a bundle it references
\* was put in the cache by the earlier call, the store would now fail for it,
\* and its entries are in the view without a fetch
C15_Witness ==
    /\ Called
    /\ lastCall.container = 2
    /\ \E r \in Referenced :
          /\ CachedBefore(r)
          /\ r \in lastCall.down
          /\ r \notin Fetched
          /\ \E i \in 1..Len(lastCall.view) : lastCall.view[i] \in Store[r]

====
